---- MODULE Spec2Model ----
(***************************************************************************)
(* Newsletter relay (src/server.js): the Zoho access-token lifecycle       *)
(* (currentAccessToken / tokenExpiryTime, refreshZohoToken,                *)
(* getValidAccessToken) and the POST /api/subscribe handler.               *)
(*                                                                         *)
(* Strings the code inspects (email, upstream body, upstream message) are  *)
(* sequences of one-character strings, so that the regular expressions,    *)
(* includes() and toLowerCase() are computed and not assumed.  Strings the *)
(* code only passes on (the user-facing messages) are TLA+ strings.        *)
(*                                                                         *)
(* One action is one run-to-completion step of the Node event loop: the    *)
(* code between two awaits that wait for the network.                      *)
(***************************************************************************)
EXTENDS Integers, Sequences, FiniteSets, TLC

VARIABLES
  currentAccessToken,  \* line 14: 0 = unset, 1 = ZOHO_AUTH_TOKEN, else a refreshed token
  tokenExpiryTime,     \* line 15: 0 = null, else epoch milliseconds
  now,                 \* Date.now(), epoch milliseconds
  ticks,               \* number of clock advances so far (bounds the clock)
  env,                 \* process.env: which settings are configured
  calls,               \* one record per POST /api/subscribe request
  startup,             \* the refresh issued at module load (lines 78-85)
  manual,              \* POST /api/refresh-token requests (lines 418-444)
  issued,              \* history: the access tokens the token endpoint granted
  lastRefresh          \* history: the grant refreshZohoToken stored last

vars == <<currentAccessToken, tokenExpiryTime, now, ticks, env, calls,
          startup, manual, issued, lastRefresh>>

-----------------------------------------------------------------------------
(* Bounds *)

NumCalls == 2
MaxTicks == 3
MaxEmailLen == 5

-----------------------------------------------------------------------------
(* Character-level strings *)

UpperChars ==
  <<"A","B","C","D","E","F","G","H","I","J","K","L","M",
    "N","O","P","Q","R","S","T","U","V","W","X","Y","Z">>

LowerChars ==
  <<"a","b","c","d","e","f","g","h","i","j","k","l","m",
    "n","o","p","q","r","s","t","u","v","w","x","y","z">>

LowerChar(ch) ==
  IF \E i \in 1..26 : UpperChars[i] = ch
    THEN LowerChars[CHOOSE i \in 1..26 : UpperChars[i] = ch]
    ELSE ch

toLowerCase(s) == [i \in 1..Len(s) |-> LowerChar(s[i])]

\* s.includes(k)
includes(s, k) ==
  \E i \in 1..(Len(s) - Len(k) + 1) : SubSeq(s, i, i + Len(k) - 1) = k

\* the needle k (lower case) stands at position i of s, ignoring case (/i)
MatchesAt(s, i, k) ==
  /\ i >= 1
  /\ i + Len(k) - 1 <= Len(s)
  /\ toLowerCase(SubSeq(s, i, i + Len(k) - 1)) = k

WhiteSpace == {" ", "\n", "\t", "\r"}

LineTerminators == {"\n", "\r"}

\* "success"
KwSuccess ==
  <<"s","u","c","c","e","s","s">>
\* "already exists"
KwAlreadyExists ==
  <<"a","l","r","e","a","d","y"," ","e","x","i","s","t","s">>
\* "duplicate"
KwDuplicate ==
  <<"d","u","p","l","i","c","a","t","e">>
\* "invalid email"
KwInvalidEmail ==
  <<"i","n","v","a","l","i","d"," ","e","m","a","i","l">>
\* "email format"
KwEmailFormat ==
  <<"e","m","a","i","l"," ","f","o","r","m","a","t">>
\* "authentication"
KwAuthentication ==
  <<"a","u","t","h","e","n","t","i","c","a","t","i","o","n">>
\* "token"
KwToken ==
  <<"t","o","k","e","n">>
\* "<?xml"
XmlDecl ==
  <<"<","?","x","m","l">>
\* "<message>"
MessageOpen ==
  <<"<","m","e","s","s","a","g","e",">">>
\* "</message>"
MessageClose ==
  <<"<","/","m","e","s","s","a","g","e",">">>
\* "<status>"
StatusOpen ==
  <<"<","s","t","a","t","u","s",">">>
\* "</status>"
StatusClose ==
  <<"<","/","s","t","a","t","u","s",">">>
\* "error"
StrError ==
  <<"e","r","r","o","r">>
\* "API returned XML error response"
StrXmlDefault ==
  <<"A","P","I"," ","r","e","t","u","r","n","e","d"," ","X","M","L"," ","e","r","r","o","r"," ","r","e","s","p","o","n","s","e">>
\* "Invalid API response format"
StrInvalidFormat ==
  <<"I","n","v","a","l","i","d"," ","A","P","I"," ","r","e","s","p","o","n","s","e"," ","f","o","r","m","a","t">>
\* "Contact added"
MsgContactAdded ==
  <<"C","o","n","t","a","c","t"," ","a","d","d","e","d">>
\* "Contact already exists"
MsgContactExists ==
  <<"C","o","n","t","a","c","t"," ","a","l","r","e","a","d","y"," ","e","x","i","s","t","s">>
\* "DUPLICATE entry, invalid TOKEN"
MsgDupToken ==
  <<"D","U","P","L","I","C","A","T","E"," ","e","n","t","r","y",","," ","i","n","v","a","l","i","d"," ","T","O","K","E","N">>
\* "Invalid email format"
MsgInvalidEmailFormat ==
  <<"I","n","v","a","l","i","d"," ","e","m","a","i","l"," ","f","o","r","m","a","t">>
\* "Email Format rejected: authentication"
MsgFormatAuth ==
  <<"E","m","a","i","l"," ","F","o","r","m","a","t"," ","r","e","j","e","c","t","e","d",":"," ","a","u","t","h","e","n","t","i","c","a","t","i","o","n">>
\* "Authentication failed"
MsgAuthFailed ==
  <<"A","u","t","h","e","n","t","i","c","a","t","i","o","n"," ","f","a","i","l","e","d">>
\* "oauth tokens expired"
MsgTokens ==
  <<"o","a","u","t","h"," ","t","o","k","e","n","s"," ","e","x","p","i","r","e","d">>
\* "List not found"
MsgListNotFound ==
  <<"L","i","s","t"," ","n","o","t"," ","f","o","u","n","d">>
\* "Success"
StrSuccessCap ==
  <<"S","u","c","c","e","s","s">>
\* "<?xml version=\"1.0\"?><response><status>error</status><message>Bad list</message></response>"
XmlBadList ==
  <<"<","?","x","m","l"," ","v","e","r","s","i","o","n","=","\"","1",".","0","\"","?",">","<","r","e","s","p","o","n","s","e",">","<","s","t","a","t","u","s",">","e","r","r","o","r","<","/","s","t","a","t","u","s",">","<","m","e","s","s","a","g","e",">","B","a","d"," ","l","i","s","t","<","/","m","e","s","s","a","g","e",">","<","/","r","e","s","p","o","n","s","e",">">>
\* "<status>error</status><message>Bad list</message>"
TagsBadList ==
  <<"<","s","t","a","t","u","s",">","e","r","r","o","r","<","/","s","t","a","t","u","s",">","<","m","e","s","s","a","g","e",">","B","a","d"," ","l","i","s","t","<","/","m","e","s","s","a","g","e",">">>
\* "<?xml ?><STATUS>success</STATUS>"
XmlUpperSuccess ==
  <<"<","?","x","m","l"," ","?",">","<","S","T","A","T","U","S",">","s","u","c","c","e","s","s","<","/","S","T","A","T","U","S",">">>
\* "<?xml ?><status>error</status><message>Bad\nlist</message>"
XmlNewline ==
  <<"<","?","x","m","l"," ","?",">","<","s","t","a","t","u","s",">","e","r","r","o","r","<","/","s","t","a","t","u","s",">","<","m","e","s","s","a","g","e",">","B","a","d","\n","l","i","s","t","<","/","m","e","s","s","a","g","e",">">>
\* "<?xml ?><error/>"
XmlNoTags ==
  <<"<","?","x","m","l"," ","?",">","<","e","r","r","o","r","/",">">>
\* "<?xml ?><message>duplicate</message><message>x</message>"
XmlTwoMessages ==
  <<"<","?","x","m","l"," ","?",">","<","m","e","s","s","a","g","e",">","d","u","p","l","i","c","a","t","e","<","/","m","e","s","s","a","g","e",">","<","m","e","s","s","a","g","e",">","x","<","/","m","e","s","s","a","g","e",">">>
\* "<?xml ?><message>a\n<message>token</message>"
XmlUnclosed ==
  <<"<","?","x","m","l"," ","?",">","<","m","e","s","s","a","g","e",">","a","\n","<","m","e","s","s","a","g","e",">","t","o","k","e","n","<","/","m","e","s","s","a","g","e",">">>
\* "Service down"
PlainText ==
  <<"S","e","r","v","i","c","e"," ","d","o","w","n">>
\* "Bad list"
StrBadList ==
  <<"B","a","d"," ","l","i","s","t">>

-----------------------------------------------------------------------------
(* User-facing messages (the only strings res.json() is given) *)

MsgEmailRequired == "Email is required"
MsgInvalidInput == "Please provide a valid email address"
MsgConfig == "Server configuration error"
MsgAuth == "Authentication error. Please try again later."
MsgUnavailable ==
  "Newsletter service temporarily unavailable. Please try again later."
MsgSubscribed == "Successfully subscribed to newsletter!"
MsgFallback == "Subscription failed. Please try again."
MsgAlreadySubscribed == "This email is already subscribed to our newsletter."
MsgInvalidEmail == "Invalid email address provided."
MsgServiceUnavailable ==
  "Service temporarily unavailable. Please try again later."
MsgGeneric == "Unable to complete subscription. Please try again."
MsgTimeout == "Request timeout. Please try again."
MsgInternal == "An unexpected error occurred. Please try again later."

\* res.status(code).json({ success, message }); res.json() alone is 200
Reply(code, ok, msg) == [status |-> code, success |-> ok, message |-> msg]

NoReply == Reply(0, FALSE, "")

-----------------------------------------------------------------------------
(* Validation: /^[^\s@]+@[^\s@]+\.[^\s@]+$/ *)

\* the character class [^\s@]
InClass(ch) == ch \notin WhiteSpace /\ ch # "@"

emailRegexNoDot(s) ==
  \E i \in 2..(Len(s) - 1) :
    /\ s[i] = "@"
    /\ \A k \in (1..Len(s)) \ {i} : InClass(s[k])

\* emailRegex.test(s): position i holds the "@", position j the "\." ;
\* every other character is in the class, and each of the three runs
\* is non-empty
emailRegex(s) ==
  \E i \in 2..Len(s) : \E j \in (i + 2)..(Len(s) - 1) :
    /\ s[i] = "@"
    /\ s[j] = "."
    /\ \A k \in (1..Len(s)) \ {i} : InClass(s[k])

-----------------------------------------------------------------------------
(* Body interpretation (lines 255-289) *)

Min(S) == CHOOSE x \in S : \A y \in S : x <= y

\* s.match(/<open>(.*?)<\/close>/i): leftmost start, shortest group,
\* "." does not match a line terminator
TagEnds(s, i, open, close) ==
  {j \in (i + Len(open))..Len(s) :
     /\ MatchesAt(s, j, close)
     /\ \A k \in (i + Len(open))..(j - 1) : s[k] \notin LineTerminators}

TagMatch(s, open, close) ==
  LET starts == {i \in 1..Len(s) :
                   MatchesAt(s, i, open) /\ TagEnds(s, i, open, close) # {}}
  IN IF starts = {}
       THEN [found |-> FALSE, group |-> <<>>]
       ELSE LET i == Min(starts)
                j == Min(TagEnds(s, i, open, close))
            IN [found |-> TRUE, group |-> SubSeq(s, i + Len(open), j - 1)]

\* the value the code calls data: status and message are <<>> when the
\* property is missing; isNull is JSON null; messageIsString is FALSE for a
\* message that is a number or an object
Data(st, msg) ==
  [isNull |-> FALSE, status |-> st, message |-> msg, messageIsString |-> TRUE]

NullData == [Data(<<>>, <<>>) EXCEPT !.isNull = TRUE]

\* an upstream body: its raw text and what JSON.parse makes of it
JsonBody(d) == [text |-> <<>>, isJson |-> TRUE, json |-> d]

TextBody(t) == [text |-> t, isJson |-> FALSE, json |-> NullData]

parseXmlAnyText(responseText) ==
  LET errorMatch == TagMatch(responseText, MessageOpen, MessageClose)
      statusMatch == TagMatch(responseText, StatusOpen, StatusClose)
  IN IF errorMatch.found \/ statusMatch.found
       THEN Data(IF statusMatch.found THEN statusMatch.group ELSE StrError,
                 IF errorMatch.found THEN errorMatch.group
                                     ELSE StrXmlDefault)
       ELSE Data(StrError, StrInvalidFormat)

\* lines 269-288, the catch of JSON.parse
parseXml(responseText) ==
  IF includes(responseText, XmlDecl)
    THEN LET errorMatch == TagMatch(responseText, MessageOpen, MessageClose)
             statusMatch == TagMatch(responseText, StatusOpen, StatusClose)
         IN Data(IF statusMatch.found THEN statusMatch.group ELSE StrError,
                 IF errorMatch.found THEN errorMatch.group
                                     ELSE StrXmlDefault)
    ELSE Data(StrError, StrInvalidFormat)

\* lines 259-289
parseBody(body) == IF body.isJson THEN body.json ELSE parseXml(body.text)

-----------------------------------------------------------------------------
(* Outcome classification (lines 291-326) *)

errorMessageTokenFirst(data) ==
  IF data.message = <<>>
    THEN MsgFallback
    ELSE LET message == toLowerCase(data.message)
         IN IF includes(message, KwAuthentication) \/ includes(message, KwToken)
              THEN MsgServiceUnavailable
            ELSE IF includes(message, KwAlreadyExists)
                      \/ includes(message, KwDuplicate)
              THEN MsgAlreadySubscribed
            ELSE IF includes(message, KwInvalidEmail)
                      \/ includes(message, KwEmailFormat)
              THEN MsgInvalidEmail
            ELSE MsgGeneric

\* lines 303-324
errorMessage(data) ==
  IF data.message = <<>>
    THEN MsgFallback
    ELSE LET message == toLowerCase(data.message)
         IN IF includes(message, KwAlreadyExists)
                 \/ includes(message, KwDuplicate)
              THEN MsgAlreadySubscribed
            ELSE IF includes(message, KwInvalidEmail)
                      \/ includes(message, KwEmailFormat)
              THEN MsgInvalidEmail
            ELSE IF includes(message, KwAuthentication)
                      \/ includes(message, KwToken)
              THEN MsgServiceUnavailable
            ELSE MsgGeneric

\* lines 292-326, for data that raises no TypeError
classify(data) ==
  IF data.status = KwSuccess
    THEN Reply(200, TRUE, MsgSubscribed)
    ELSE Reply(400, FALSE, errorMessage(data))

\* data.status on null, or toLowerCase on a message that is not a string
raisesTypeError(data) ==
  \/ data.isNull
  \/ data.status # KwSuccess /\ data.message # <<>> /\ ~data.messageIsString

-----------------------------------------------------------------------------
(* The outer catch (lines 327-355) *)

Err(name, code) == [name |-> name, code |-> code]

TypeError == Err("TypeError", "")

catchReplyLeaks(error) ==
  IF error.name = "AbortError" \/ error.code = "ECONNABORTED"
    THEN Reply(504, FALSE, MsgTimeout)
  ELSE IF error.name = "FetchError" \/ error.code = "ENOTFOUND"
    THEN Reply(503, FALSE, MsgUnavailable)
  ELSE Reply(500, FALSE, error.name)

catchReplyNoTimeout(error) ==
  IF error.name = "FetchError" \/ error.code = "ENOTFOUND"
    THEN Reply(503, FALSE, MsgUnavailable)
    ELSE Reply(500, FALSE, MsgInternal)

catchReply(error) ==
  IF error.name = "AbortError" \/ error.code = "ECONNABORTED"
    THEN Reply(504, FALSE, MsgTimeout)
  ELSE IF error.name = "FetchError" \/ error.code = "ENOTFOUND"
    THEN Reply(503, FALSE, MsgUnavailable)
  ELSE Reply(500, FALSE, MsgInternal)

\* lines 248-252
unavailableReply == Reply(500, FALSE, MsgUnavailable)

\* lines 256-326 with the catch: what a success-status response leads to
interpret(body) ==
  LET data == parseBody(body)
  IN IF raisesTypeError(data) THEN catchReply(TypeError) ELSE classify(data)

-----------------------------------------------------------------------------
(* Inputs *)

EmailChars == {"a", "@", ".", " "}

\* req.body.email: every string of at most MaxEmailLen characters;
\* <<>> is the empty or missing email (!email)
Emails == UNION {[1..n -> EmailChars] : n \in 0..MaxEmailLen}

ValidEmail == <<"a","@","a",".","a">>

CoreEmails == {ValidEmail, <<"a","@","a">>}

\* upstream bodies of the list-subscribe endpoint
Bodies ==
  << JsonBody(Data(KwSuccess, <<>>)),
     JsonBody(Data(KwSuccess, MsgContactAdded)),
     JsonBody(Data(StrError, MsgContactExists)),
     JsonBody(Data(StrError, MsgDupToken)),
     JsonBody(Data(StrError, MsgInvalidEmailFormat)),
     JsonBody(Data(StrError, MsgFormatAuth)),
     JsonBody(Data(StrError, MsgAuthFailed)),
     JsonBody(Data(StrError, MsgTokens)),
     JsonBody(Data(StrError, MsgListNotFound)),
     JsonBody(Data(StrError, <<>>)),
     JsonBody(Data(<<>>, KwAlreadyExists)),
     JsonBody(Data(StrSuccessCap, <<>>)),
     JsonBody(NullData),
     JsonBody([Data(StrError, <<"7">>) EXCEPT !.messageIsString = FALSE]),
     JsonBody([Data(KwSuccess, <<"7">>) EXCEPT !.messageIsString = FALSE]),
     TextBody(XmlBadList),
     TextBody(TagsBadList),
     TextBody(XmlUpperSuccess),
     TextBody(XmlNewline),
     TextBody(XmlNoTags),
     TextBody(XmlTwoMessages),
     TextBody(XmlUnclosed),
     TextBody(PlainText),
     TextBody(<<>>) >>

BodyIds == 1..Len(Bodies)

\* errors a fetch, response.text() or response.json() can raise
Errors ==
  { Err("AbortError", ""), Err("Error", "ECONNABORTED"),
    Err("FetchError", "ECONNABORTED"), Err("FetchError", "ECONNREFUSED"),
    Err("Error", "ENOTFOUND"), Err("Error", "") }

NoError == Err("", "")

\* what one remote subscribe call comes back with: fetch raises, or gives a
\* status line; then reading the body raises, or gives body number `body`
Thrown(e) == [kind |-> "throw", error |-> e, status |-> 0, body |-> 0]

Http(st, b) == [kind |-> "http", error |-> NoError, status |-> st, body |-> b]

ReadFail(st, e) == [kind |-> "readfail", error |-> e, status |-> st, body |-> 0]

NoOutcome == [kind |-> "none", error |-> NoError, status |-> 0, body |-> 0]

Outcomes ==
  {Thrown(e) : e \in Errors}
    \cup {Http(st, 0) : st \in {401, 404, 500}}
    \cup {Http(st, b) : st \in {200, 204}, b \in BodyIds}
    \cup {ReadFail(200, e) : e \in Errors}

CoreOutcomes == {Http(401, 0), Http(200, 1)}

\* response.ok
ok(status) == status >= 200 /\ status <= 299

\* what the token endpoint comes back with; expires_in = 0 stands for a
\* payload without expires_in
Granted(life) == [kind |-> "granted", expires_in |-> life]

Refused(k) == [kind |-> k, expires_in |-> 0]

Lifetimes == {0, 300, 3600, 7200}

RefreshOutcomes ==
  {Granted(l) : l \in Lifetimes}
    \cup {Refused(k) : k \in {"http", "no_token", "network"}}

CoreRefreshOutcomes == {Granted(3600), Granted(7200), Refused("http")}

\* clock advances, in milliseconds
TickDeltas == {1, 3299999}

StartTime == 1000000

-----------------------------------------------------------------------------
(* Token values *)

NoToken == 0

StaticToken == 1

StartupProc == 1

ManualProc == 2

CallProc(c) == 2 + c

\* the access_token granted to the k-th refreshZohoToken call of process p
\* (every manual refresh is given the same one)
Tok(p, k) == 10 * p + k

Calls == 1..NumCalls

DefaultLifetime == 3600

SafetyMargin == 300

-----------------------------------------------------------------------------
(* refreshZohoToken (lines 18-63) *)

storeTokenNoMargin(data, t) ==
  [token |-> data.access_token,
   expiry |-> t + (IF data.expires_in # 0 THEN data.expires_in
                                          ELSE DefaultLifetime) * 1000]

storeTokenFirstWins(data, t) ==
  IF currentAccessToken \in {NoToken, StaticToken}
    THEN [token |-> data.access_token,
          expiry |-> t + ((IF data.expires_in # 0 THEN data.expires_in
                                                  ELSE DefaultLifetime)
                            - SafetyMargin) * 1000]
    ELSE [token |-> currentAccessToken, expiry |-> tokenExpiryTime]

storeTokenKeepExpiry(data, t) ==
  [token |-> data.access_token, expiry |-> tokenExpiryTime]

\* lines 44-46, executed without an await in between
storeToken(data, t) ==
  [token |-> data.access_token,
   expiry |-> t + ((IF data.expires_in # 0 THEN data.expires_in
                                           ELSE DefaultLifetime)
                     - SafetyMargin) * 1000]

\* lines 27-32: the request carries ZOHO_CLIENT_ID and ZOHO_CLIENT_SECRET;
\* the provider grants a token only to a request that carries them
tokenEndpointAnswers(r) == r.kind = "granted" => env.clientCreds

refreshZohoTokenClears(r, tok) ==
  IF r.kind = "granted"
    THEN LET s == storeToken([access_token |-> tok,
                              expires_in |-> r.expires_in], now)
         IN /\ currentAccessToken' = s.token
            /\ tokenExpiryTime' = s.expiry
            /\ issued' = issued \cup {tok}
            /\ lastRefresh' =
                 [token |-> tok, at |-> now, expires_in |-> r.expires_in]
    ELSE /\ currentAccessToken' = NoToken
         /\ tokenExpiryTime' = 0
         /\ UNCHANGED <<issued, lastRefresh>>

\* the continuation of refreshZohoToken after its awaits: r is what the token
\* endpoint answered, tok the access_token it carries
refreshZohoToken(r, tok) ==
  /\ tokenEndpointAnswers(r)
  /\ IF r.kind = "granted"
       THEN LET s == storeToken([access_token |-> tok,
                                 expires_in |-> r.expires_in], now)
            IN /\ currentAccessToken' = s.token
               /\ tokenExpiryTime' = s.expiry
               /\ issued' = issued \cup {tok}
               /\ lastRefresh' =
                    [token |-> tok, at |-> now, expires_in |-> r.expires_in]
       ELSE UNCHANGED <<currentAccessToken, tokenExpiryTime, issued,
                        lastRefresh>>

mustRefreshUnknownExpiry ==
  \/ currentAccessToken = NoToken
  \/ tokenExpiryTime = 0
  \/ now >= tokenExpiryTime

\* lines 68-71: getValidAccessToken must refresh
mustRefresh ==
  \/ currentAccessToken = NoToken
  \/ tokenExpiryTime # 0 /\ now >= tokenExpiryTime

-----------------------------------------------------------------------------
(* State *)

\* one POST /api/subscribe request.  pc is the await the handler is parked
\* at; accessToken and data are the handler's local variables; reply is what
\* res.json() was given.  The remaining fields count and record what the
\* request did: calls of getValidAccessToken, whether it returned, calls of
\* refreshZohoToken from getValidAccessToken and from the 401 branch, remote
\* subscribe calls issued, and what the two remote calls came back with;
\* checkedAt is the Date.now() of line 70 while the request is in progress.
IdleCall ==
  [pc |-> "idle", email |-> <<>>, accessToken |-> NoToken, reply |-> NoReply,
   tokenCalls |-> 0, tokenOk |-> FALSE, checkedAt |-> 0, tokenRefreshes |-> 0,
   retryRefreshes |-> 0, retryRefresh |-> "none", submits |-> 0,
   first |-> NoOutcome, second |-> NoOutcome, data |-> NullData]

NoRefresh == [token |-> NoToken, at |-> 0, expires_in |-> 0]

\* process.env: which of ZOHO_REFRESH_TOKEN, ZOHO_LIST_KEY, ZOHO_AUTH_TOKEN
\* and the pair ZOHO_CLIENT_ID / ZOHO_CLIENT_SECRET are set.  The client
\* pair is read only by refreshZohoToken, which runs only when the refresh
\* token is set, so its absence is enumerated only then.
Envs ==
  {e \in [refreshToken : BOOLEAN, listKey : BOOLEAN, authToken : BOOLEAN,
          clientCreds : BOOLEAN] : e.clientCreds \/ e.refreshToken}

Init ==
  /\ env \in Envs
  /\ currentAccessToken = IF env.authToken THEN StaticToken ELSE NoToken
  /\ tokenExpiryTime = 0
  /\ now = StartTime
  /\ ticks = 0
  /\ calls = [c \in Calls |-> IdleCall]
  /\ startup = IF env.refreshToken THEN "inflight" ELSE "off"
  /\ manual = [pc |-> "idle", status |-> 0]
  /\ issued = {}
  /\ lastRefresh = NoRefresh

\* return res.status(..).json(..): the handler's locals are gone
Finish(rec, reply) ==
  [rec EXCEPT !.pc = "done", !.reply = reply, !.accessToken = NoToken,
              !.checkedAt = 0]

-----------------------------------------------------------------------------
(* The clock *)

Tick(d) ==
  /\ ticks < MaxTicks
  /\ now' = now + d
  /\ ticks' = ticks + 1
  /\ UNCHANGED <<currentAccessToken, tokenExpiryTime, env, calls, startup,
                 manual, issued, lastRefresh>>

-----------------------------------------------------------------------------
(* Startup refresh (lines 78-85) and POST /api/refresh-token (418-444) *)

StartupResponse(r) ==
  /\ startup = "inflight"
  /\ refreshZohoToken(r, Tok(StartupProc, 1))
  /\ startup' = "done"
  /\ UNCHANGED <<now, ticks, env, calls, manual>>

ManualRefresh ==
  /\ manual.pc = "idle"
  /\ manual' = IF env.refreshToken
                 THEN [manual EXCEPT !.pc = "inflight"]
                 ELSE [manual EXCEPT !.status = 400]
  /\ UNCHANGED <<currentAccessToken, tokenExpiryTime, now, ticks, env, calls,
                 startup, issued, lastRefresh>>

ManualResponse(r) ==
  /\ manual.pc = "inflight"
  /\ refreshZohoToken(r, Tok(ManualProc, 1))
  /\ manual' = [pc |-> "idle",
                status |-> IF r.kind = "granted" THEN 200 ELSE 500]
  /\ UNCHANGED <<now, ticks, env, calls, startup>>

-----------------------------------------------------------------------------
(* POST /api/subscribe (lines 107-356) *)

tokenReturnedStale(rec, token) == [rec EXCEPT !.tokenOk = TRUE]

\* line 149: getValidAccessToken returned token (line 74 reads the shared
\* variable)
tokenReturned(rec, token) ==
  [rec EXCEPT !.tokenOk = TRUE, !.accessToken = token]

\* lines 158-187: the first remote subscribe call is issued
issueSubmit(rec) == [rec EXCEPT !.pc = "submit", !.submits = @ + 1]

\* lines 111-187, up to the first await that waits for the network
Subscribe(c, email) ==
  /\ calls[c].pc = "idle"
  /\ LET rec == [calls[c] EXCEPT !.email = email]
     IN calls' = [calls EXCEPT ![c] =
          IF email = <<>>
            THEN Finish(rec, Reply(400, FALSE, MsgEmailRequired))
          ELSE IF ~emailRegex(email)
            THEN Finish(rec, Reply(400, FALSE, MsgInvalidInput))
          ELSE IF ~env.listKey
            THEN Finish(rec, Reply(500, FALSE, MsgConfig))
          ELSE IF currentAccessToken = NoToken /\ ~env.refreshToken
            THEN Finish(rec, Reply(500, FALSE, MsgConfig))
          ELSE IF mustRefresh
            THEN [rec EXCEPT !.pc = "getToken", !.tokenCalls = @ + 1,
                             !.checkedAt = now, !.tokenRefreshes = @ + 1]
          ELSE issueSubmit(tokenReturned([rec EXCEPT !.tokenCalls = @ + 1,
                                                     !.checkedAt = now],
                                         currentAccessToken))]
  /\ UNCHANGED <<currentAccessToken, tokenExpiryTime, now, ticks, env,
                 startup, manual, issued, lastRefresh>>

tokenFailureHangs(rec) == [rec EXCEPT !.pc = "hung"]

tokenFailureGeneric(rec) == Finish(rec, Reply(500, FALSE, MsgGeneric))

tokenFailureSubmits(rec) == issueSubmit(rec)

\* lines 150-156: getValidAccessToken raised
tokenFailure(rec) == Finish(rec, Reply(500, FALSE, MsgAuth))

\* the refresh awaited inside getValidAccessToken (line 72) completes
TokenResponse(c, r) ==
  /\ calls[c].pc = "getToken"
  /\ refreshZohoToken(r, Tok(CallProc(c), 1))
  /\ calls' = [calls EXCEPT ![c] =
       IF r.kind = "granted"
         THEN issueSubmit(tokenReturned(calls[c], currentAccessToken'))
         ELSE tokenFailure(calls[c])]
  /\ UNCHANGED <<now, ticks, env, startup, manual>>

retriesOnAnyFailure(status) == env.refreshToken

\* line 199
retriesOn(status) == status = 401 /\ env.refreshToken

\* lines 175-326 and the catch: the first remote subscribe call completes
SubmitResponse(c, o) ==
  /\ calls[c].pc = "submit"
  /\ LET rec == [calls[c] EXCEPT !.first = o]
     IN calls' = [calls EXCEPT ![c] =
          IF o.kind = "throw"
            THEN Finish(rec, catchReply(o.error))
          ELSE IF ~ok(o.status)
            THEN IF retriesOn(o.status)
                   THEN [rec EXCEPT !.pc = "refresh401",
                                    !.retryRefreshes = @ + 1]
                   ELSE Finish(rec, unavailableReply)
          ELSE IF o.kind = "readfail"
            THEN Finish(rec, catchReply(o.error))
          ELSE Finish([rec EXCEPT !.data = parseBody(Bodies[o.body])],
                      interpret(Bodies[o.body]))]
  /\ UNCHANGED <<currentAccessToken, tokenExpiryTime, now, ticks, env,
                 startup, manual, issued, lastRefresh>>

\* lines 202-229 and 243-252: the refresh after a 401 completes
RetryTokenResponse(c, r) ==
  /\ calls[c].pc = "refresh401"
  /\ refreshZohoToken(r, Tok(CallProc(c), 2))
  /\ calls' = [calls EXCEPT ![c] =
       IF r.kind = "granted"
         THEN [calls[c] EXCEPT !.pc = "retry", !.retryRefresh = "granted",
                               !.accessToken = currentAccessToken',
                               !.submits = @ + 1]
         ELSE Finish([calls[c] EXCEPT !.retryRefresh = "failed"],
                     unavailableReply)]
  /\ UNCHANGED <<now, ticks, env, startup, manual>>

\* lines 230-232: retryResponse.ok, retryResponse.json() parses, and
\* retryData.status === "success" raises nothing and holds
retrySucceeded(o) ==
  /\ o.kind = "http"
  /\ ok(o.status)
  /\ Bodies[o.body].isJson
  /\ ~Bodies[o.body].json.isNull
  /\ Bodies[o.body].json.status = KwSuccess

retryReplyClassifies(o) ==
  IF o.kind = "throw" \/ o.kind = "readfail" THEN catchReply(o.error)
  ELSE IF ~ok(o.status) THEN unavailableReply
  ELSE interpret(Bodies[o.body])

\* lines 230-252
retryReply(o) ==
  IF retrySucceeded(o) THEN Reply(200, TRUE, MsgSubscribed)
                       ELSE unavailableReply

\* the retried remote subscribe call completes
RetryResponse(c, o) ==
  /\ calls[c].pc = "retry"
  /\ calls' = [calls EXCEPT ![c] =
       Finish([calls[c] EXCEPT !.second = o], retryReply(o))]
  /\ UNCHANGED <<currentAccessToken, tokenExpiryTime, now, ticks, env,
                 startup, manual, issued, lastRefresh>>

-----------------------------------------------------------------------------
(* Specifications *)

\* concurrent requests, the startup refresh and manual refreshes, at one
\* instant of the clock
Next ==
  \/ \E r \in CoreRefreshOutcomes : StartupResponse(r)
  \/ ManualRefresh
  \/ \E r \in CoreRefreshOutcomes : ManualResponse(r)
  \/ \E c \in Calls : \E e \in CoreEmails : Subscribe(c, e)
  \/ \E c \in Calls : \E r \in CoreRefreshOutcomes : TokenResponse(c, r)
  \/ \E c \in Calls : \E o \in CoreOutcomes : SubmitResponse(c, o)
  \/ \E c \in Calls : \E r \in CoreRefreshOutcomes : RetryTokenResponse(c, r)
  \/ \E c \in Calls : \E o \in CoreOutcomes : RetryResponse(c, o)

Spec == Init /\ [][Next]_vars

\* one request and the refreshes around it on a fine-grained clock, with
\* every lifetime the token endpoint may grant
NextClock ==
  \/ \E d \in TickDeltas : Tick(d)
  \/ \E r \in RefreshOutcomes : StartupResponse(r)
  \/ ManualRefresh
  \/ \E r \in RefreshOutcomes : ManualResponse(r)
  \/ Subscribe(1, ValidEmail)
  \/ \E r \in RefreshOutcomes : TokenResponse(1, r)
  \/ \E o \in CoreOutcomes : SubmitResponse(1, o)
  \/ \E r \in RefreshOutcomes : RetryTokenResponse(1, r)
  \/ \E o \in CoreOutcomes : RetryResponse(1, o)

SpecClock == Init /\ [][NextClock]_vars

\* one request with every upstream answer and error
NextOne ==
  \/ \E r \in CoreRefreshOutcomes : StartupResponse(r)
  \/ \E e \in CoreEmails : Subscribe(1, e)
  \/ \E r \in CoreRefreshOutcomes : TokenResponse(1, r)
  \/ \E o \in Outcomes : SubmitResponse(1, o)
  \/ \E r \in CoreRefreshOutcomes : RetryTokenResponse(1, r)
  \/ \E o \in Outcomes : RetryResponse(1, o)

SpecOne == Init /\ [][NextOne]_vars

\* one request with every email, whatever token is held when it arrives
NextEmail ==
  \/ \E r \in CoreRefreshOutcomes : StartupResponse(r)
  \/ \E e \in Emails : Subscribe(1, e)

SpecEmail == Init /\ [][NextEmail]_vars

\* what the remote subscribe endpoint does in the runs checked for
\* termination: a 401, a success, a body that makes the handler raise, a
\* fetch that fails and a body that cannot be read
LiveOutcomes ==
  CoreOutcomes
    \cup {Http(200, 13), Thrown(Err("Error", "")),
          ReadFail(200, Err("AbortError", ""))}

\* two concurrent requests with the startup and manual refreshes
NextLive ==
  \/ \E r \in CoreRefreshOutcomes : StartupResponse(r)
  \/ ManualRefresh
  \/ \E r \in CoreRefreshOutcomes : ManualResponse(r)
  \/ \E c \in {1, 2} : \E e \in CoreEmails : Subscribe(c, e)
  \/ \E c \in {1, 2} : \E r \in CoreRefreshOutcomes : TokenResponse(c, r)
  \/ \E c \in {1, 2} : \E o \in LiveOutcomes : SubmitResponse(c, o)
  \/ \E c \in {1, 2} : \E r \in CoreRefreshOutcomes : RetryTokenResponse(c, r)
  \/ \E c \in {1, 2} : \E o \in LiveOutcomes : RetryResponse(c, o)

\* every remote call a request has made comes back: the continuation after
\* each await of the handler is eventually run by the event loop
RemoteCallsReturn ==
  \A c \in {1, 2} :
    /\ WF_vars(\E r \in CoreRefreshOutcomes : TokenResponse(c, r))
    /\ WF_vars(\E o \in LiveOutcomes : SubmitResponse(c, o))
    /\ WF_vars(\E r \in CoreRefreshOutcomes : RetryTokenResponse(c, r))
    /\ WF_vars(\E o \in LiveOutcomes : RetryResponse(c, o))

SpecLive == Init /\ [][NextLive]_vars /\ RemoteCallsReturn

-----------------------------------------------------------------------------
(* Properties *)

Success == Reply(200, TRUE, MsgSubscribed)

\* the first remote subscribe call came back with a status line
FirstStatus(c) == IF calls[c].first.kind \in {"http", "readfail"}
                    THEN calls[c].first.status ELSE 0

\* a request that made no outbound call
NoOutboundCall(c) ==
  /\ calls[c].tokenCalls = 0
  /\ calls[c].tokenRefreshes = 0
  /\ calls[c].retryRefreshes = 0
  /\ calls[c].submits = 0

\* the part of an email after its first "@"
DomainPart(e) ==
  LET at == Min({i \in 1..Len(e) : e[i] = "@"})
  IN SubSeq(e, at + 1, Len(e))

Contains(e, chars) == \E i \in 1..Len(e) : e[i] \in chars

\* empty or missing, no "@", no "." in the domain part, or whitespace
Malformed(e) ==
  \/ e = <<>>
  \/ ~Contains(e, {"@"})
  \/ ~Contains(DomainPart(e), {"."})
  \/ Contains(e, WhiteSpace)

C2Answered ==
  \A c \in Calls :
    (calls[c].pc # "idle" /\ Malformed(calls[c].email)) =>
      /\ calls[c].pc = "done"
      /\ calls[c].reply \in {Reply(400, FALSE, MsgEmailRequired),
                              Reply(400, FALSE, MsgInvalidInput)}
      /\ NoOutboundCall(c)

C2Frame ==
  \A c \in Calls :
    (calls[c].pc = "idle" /\ calls'[c].pc # "idle"
       /\ Malformed(calls'[c].email)) =>
      UNCHANGED <<currentAccessToken, tokenExpiryTime, issued>>

\* C2: a subscribe call with a malformed email (empty or missing, no "@",
\* no "." in the domain part, or containing whitespace) is answered with the
\* invalid-input failure (HTTP 400), makes no outbound call (no token
\* refresh, no remote subscribe call) and leaves token and expiry unchanged.
C2_MalformedEmailRejected == []C2Answered /\ [][C2Frame]_vars

C2_Witness ==
  \E c \in Calls :
    /\ calls[c].pc = "done"
    /\ calls[c].email = <<"a", ".", "a", "@", "a">>
    /\ calls[c].reply = Reply(400, FALSE, MsgInvalidInput)
    /\ currentAccessToken = Tok(StartupProc, 1)

\* C9: a subscribe call that has issued a remote subscribe call has a
\* well-formed email, made exactly one getValidAccessToken call, and that
\* call had returned a token by the time the first remote call was issued;
\* no call ever makes a second getValidAccessToken call.
C9_OneTokenAttemptBeforeSubmit ==
  \A c \in Calls :
    /\ calls[c].tokenCalls <= 1
    /\ calls[c].submits >= 1 =>
         /\ emailRegex(calls[c].email)
         /\ calls[c].tokenCalls = 1
         /\ calls[c].tokenOk

C9_Witness ==
  \E c \in Calls :
    /\ calls[c].submits = 2
    /\ calls[c].tokenCalls = 1
    /\ calls[c].tokenRefreshes = 1
    /\ calls[c].tokenOk

\* the expiry a refresh that completed at r.at with lifetime r.expires_in
\* stores: completion time plus lifetime (3600 s when none) minus 300 s
ExpiryOf(r) ==
  r.at + ((IF r.expires_in = 0 THEN 3600 ELSE r.expires_in) - 300) * 1000

InitialToken == IF env.authToken THEN StaticToken ELSE NoToken

C3Pair ==
  \/ /\ lastRefresh = NoRefresh
     /\ currentAccessToken = InitialToken
     /\ tokenExpiryTime = 0
  \/ /\ lastRefresh.token \in issued
     /\ currentAccessToken = lastRefresh.token
     /\ tokenExpiryTime = ExpiryOf(lastRefresh)

\* a step in which some refreshZohoToken call completes
RefreshCompletes ==
  \/ startup = "inflight" /\ startup' = "done"
  \/ manual.pc = "inflight" /\ manual'.pc = "idle"
  \/ \E c \in Calls : /\ calls[c].pc \in {"getToken", "refresh401"}
                       /\ calls'[c].pc # calls[c].pc

C3Writer ==
  <<currentAccessToken, tokenExpiryTime>>' # <<currentAccessToken, tokenExpiryTime>>
    => RefreshCompletes /\ lastRefresh' # lastRefresh

\* C3: under every interleaving of concurrent subscribe calls, manual
\* refreshes and the startup refresh, the held (token, expiry) pair is the
\* initial pair (configured token or none, expiry unknown) or the token and
\* the expiry of the same successful refresh, and only a completing refresh
\* changes the pair.
C3_PairFromOneRefresh == []C3Pair /\ [][C3Writer]_vars

C3_Witness ==
  /\ Cardinality(issued) >= 2
  /\ lastRefresh.expires_in = 7200
  /\ tokenExpiryTime = ExpiryOf(lastRefresh)
  /\ tokenExpiryTime # 0
  /\ \E c \in Calls : calls[c].pc \in {"getToken", "refresh401"}
  /\ \E c \in Calls : calls[c].pc = "submit"
                       /\ calls[c].accessToken \notin {currentAccessToken, StaticToken}

\* the instant, in milliseconds after the refresh r completed, from which
\* a token of lifetime 3600 s counts as expired: 3300 s
ExpiredFrom(r) == r.at + 3300 * 1000

\* the step in which request c evaluates the condition of getValidAccessToken
TokenDecision(c) == calls[c].tokenCalls = 0 /\ calls'[c].tokenCalls = 1

C4Step ==
  \A c \in Calls :
    ( /\ TokenDecision(c)
      /\ lastRefresh # NoRefresh
      /\ currentAccessToken = lastRefresh.token
      /\ lastRefresh.expires_in \in {0, 3600} ) =>
        (calls'[c].tokenRefreshes = 1 <=> now >= ExpiredFrom(lastRefresh))

\* C4: while the held token is the one a refresh stored at time T with
\* expires_in = 3600 s, or with no expires_in, getValidAccessToken makes no
\* refresh at any time before T + 3300 s and makes one at any time at or
\* after T + 3300 s.
C4_ValidUntilMargin == [][C4Step]_vars

C4_Witness ==
  \E c \in Calls :
    /\ calls[c].pc = "getToken"
    /\ calls[c].checkedAt = now
    /\ currentAccessToken = lastRefresh.token
    /\ lastRefresh.expires_in = 3600
    /\ now = ExpiredFrom(lastRefresh)

C5Step ==
  \A c \in Calls :
    (~calls[c].tokenOk /\ calls'[c].tokenOk) =>
      /\ calls'[c].accessToken = currentAccessToken'
      /\ tokenExpiryTime' = 0 \/ tokenExpiryTime' > now'

\* C5: in the step in which getValidAccessToken returns, the token it
\* returns is the held one and its expiry is unknown or strictly later than
\* the current time, whatever lifetime the token endpoint granted.
C5_ReturnedTokenNotExpired == [][C5Step]_vars

\* the retried call came back with a success status and a JSON body whose
\* status is "success"
RetryBodySuccess(o) ==
  /\ o.kind = "http"
  /\ o.status \in 200..299
  /\ Bodies[o.body].isJson
  /\ ~Bodies[o.body].json.isNull
  /\ Bodies[o.body].json.status = KwSuccess

Unavailable500 == Reply(500, FALSE, MsgUnavailable)

\* request c is answered and its first remote call returned 401 while a
\* refresh token is configured
Answered401(c) ==
  calls[c].pc = "done" /\ FirstStatus(c) = 401 /\ env.refreshToken

RetryResult(c) ==
  calls[c].reply = IF RetryBodySuccess(calls[c].second) THEN Success
                                                        ELSE Unavailable500

\* C1 as stated: after a 401 with a refresh token configured there are
\* always exactly one refresh and exactly one retry, and the retry decides
\* between Success and the upstream-unavailable failure.
C1_AlwaysOneRetry ==
  \A c \in Calls :
    Answered401(c) =>
      /\ calls[c].retryRefreshes = 1
      /\ calls[c].submits = 2
      /\ RetryResult(c)

\* C1, amended: after a 401 with a refresh token configured exactly one
\* refresh is attempted because of it; if that refresh succeeds the remote
\* call is retried exactly once, the result being Success if the retry
\* returns a success status and a JSON body with status "success" and the
\* upstream-unavailable failure with its generic message otherwise; if the
\* refresh fails there is no retry and the result is that same failure.
C1_OneRefreshAtMostOneRetry ==
  \A c \in Calls :
    Answered401(c) =>
      /\ calls[c].retryRefreshes = 1
      /\ calls[c].tokenRefreshes <= 1
      /\ \/ /\ calls[c].retryRefresh = "granted"
            /\ calls[c].submits = 2
            /\ calls[c].second # NoOutcome
            /\ RetryResult(c)
         \/ /\ calls[c].retryRefresh = "failed"
            /\ calls[c].submits = 1
            /\ calls[c].second = NoOutcome
            /\ calls[c].reply = Unavailable500

C1_Witness ==
  \E c \in Calls :
    /\ Answered401(c)
    /\ calls[c].retryRefresh = "granted"
    /\ calls[c].second = Http(200, 3)
    /\ calls[c].reply = Unavailable500

ValidationMessages == {MsgEmailRequired, MsgInvalidInput}

ClassifiedMessages ==
  {MsgFallback, MsgAlreadySubscribed, MsgInvalidEmail, MsgServiceUnavailable,
   MsgGeneric}

\* C6: an answered request has status 503 if the outcome is upstream
\* unavailable (the generic unavailable message), 200 if it is a success,
\* 400 for validation and classified upstream failures, 500 for config and
\* internal failures, 504 for a timeout.
C6_StatusPerCategory ==
  \A c \in Calls :
    calls[c].pc = "done" =>
      LET r == calls[c].reply
      IN /\ r.message = MsgUnavailable => r.status = 503
         /\ r.success => r.status = 200
         /\ r.message \in ValidationMessages \cup ClassifiedMessages
              => r.status = 400
         /\ r.message \in {MsgConfig, MsgInternal} => r.status = 500
         /\ r.message = MsgTimeout => r.status = 504

\* the body of the first remote call, when one was read
FirstBody(c) == Bodies[calls[c].first.body]

\* request c is answered after its first remote call returned a success
\* status and a body that is not JSON
ParsedAsText(c) ==
  /\ calls[c].pc = "done"
  /\ calls[c].first.kind = "http"
  /\ calls[c].first.status \in 200..299
  /\ ~FirstBody(c).isJson

\* text holds <open>value<close>, tags in any case
Wrapped(text, open, value, close) ==
  includes(toLowerCase(text), open \o toLowerCase(value) \o close)

\* C7 as stated: a non-JSON body with <status> and <message> tags, with or
\* without an XML declaration, yields the contents of the tags.
C7_TagsExtractedAlways ==
  \A c \in Calls :
    (ParsedAsText(c) /\ FirstBody(c).text \in {XmlBadList, TagsBadList}) =>
      /\ calls[c].data = Data(StrError, StrBadList)
      /\ calls[c].reply.status # 500

\* C7, amended: a non-JSON body that contains the XML declaration "<?xml"
\* yields the contents of its <status> and <message> tags, "error" and
\* "API returned XML error response" standing in for a tag that is missing,
\* and raises no parse error; a non-JSON body without the declaration yields
\* {status: "error", message: "Invalid API response format"}, tags or not.
C7_TagsExtractedWithDeclaration ==
  \A c \in Calls :
    ParsedAsText(c) =>
      LET text == FirstBody(c).text
          data == calls[c].data
      IN /\ calls[c].reply.status \in {200, 400}
         /\ IF includes(text, XmlDecl)
              THEN /\ \/ data.status = StrError
                      \/ Wrapped(text, StatusOpen, data.status, StatusClose)
                   /\ \/ data.message = StrXmlDefault
                      \/ Wrapped(text, MessageOpen, data.message, MessageClose)
              ELSE data = Data(StrError, StrInvalidFormat)
         /\ text = XmlBadList => data = Data(StrError, StrBadList)
         /\ text = TagsBadList => data = Data(StrError, StrInvalidFormat)
         /\ text = XmlNoTags => data = Data(StrError, StrXmlDefault)
         /\ text = XmlNewline => data = Data(StrError, StrXmlDefault)
         /\ text = XmlUpperSuccess => data = Data(KwSuccess, StrXmlDefault)
         /\ text = XmlTwoMessages => data = Data(StrError, KwDuplicate)
         /\ text = XmlUnclosed => data = Data(StrError, KwToken)

C7_Witness ==
  \E c \in Calls :
    /\ ParsedAsText(c)
    /\ FirstBody(c).text = XmlBadList
    /\ calls[c].data.message = StrBadList
    /\ calls[c].reply = Reply(400, FALSE, MsgGeneric)

IsTimeout(e) == e.name = "AbortError" \/ e.code = "ECONNABORTED"

IsConnectionFailure(e) == e.name = "FetchError" \/ e.code = "ENOTFOUND"

Raised(o) == o.kind \in {"throw", "readfail"}

\* what the claim says an error raised by a remote call is answered with
ReplyFor(e) ==
  IF IsTimeout(e) THEN Reply(504, FALSE, MsgTimeout)
  ELSE IF IsConnectionFailure(e) THEN Reply(503, FALSE, MsgUnavailable)
  ELSE Reply(500, FALSE, MsgInternal)

C8First ==
  \A c \in Calls :
    /\ Raised(calls[c].first) =>
         calls[c].pc = "done" /\ calls[c].reply = ReplyFor(calls[c].first.error)
    /\ ( /\ calls[c].first.kind = "http"
          /\ calls[c].first.status \in 200..299
          /\ FirstBody(c) = JsonBody(NullData) ) =>
         calls[c].pc = "done" /\ calls[c].reply = Reply(500, FALSE, MsgInternal)

\* C8 as stated: a timeout of the first call or of the retry is answered
\* with 504.
C8_TimeoutAlways504 ==
  /\ C8First
  /\ \A c \in Calls :
       Raised(calls[c].second) =>
         calls[c].pc = "done" /\ calls[c].reply = ReplyFor(calls[c].second.error)

\* C8, amended: an error raised by the first remote subscribe call is
\* answered with the timeout failure (504) if it is a timeout or abort, with
\* upstream-unavailable (503) if it is a DNS or connection failure and with
\* the internal failure (500) otherwise; any error raised by the retry after
\* a 401, a timeout included, is answered with the upstream-unavailable
\* failure (500).  A response is produced in each case.
C8_TimeoutOfFirstCall504 ==
  /\ C8First
  /\ \A c \in Calls :
       Raised(calls[c].second) =>
         calls[c].pc = "done" /\ calls[c].reply = Unavailable500

C8_Witness ==
  \E c \in Calls :
    /\ calls[c].pc = "done"
    /\ calls[c].first = Thrown(Err("FetchError", "ECONNABORTED"))
    /\ calls[c].reply = Reply(504, FALSE, MsgTimeout)

\* the lower-cased message of the parsed body contains kw
Mentions(d, kw) == includes(toLowerCase(d.message), kw)

Duplicate(d) == Mentions(d, KwAlreadyExists) \/ Mentions(d, KwDuplicate)

BadEmail(d) == Mentions(d, KwInvalidEmail) \/ Mentions(d, KwEmailFormat)

AuthRelated(d) == Mentions(d, KwAuthentication) \/ Mentions(d, KwToken)

\* the reference mapping from a parsed body to the answer
Reference(d) ==
  IF d.status = KwSuccess THEN Success
  ELSE Reply(400, FALSE,
         CASE d.message = <<>> -> MsgFallback
           [] d.message # <<>> /\ Duplicate(d) -> MsgAlreadySubscribed
           [] d.message # <<>> /\ ~Duplicate(d) /\ BadEmail(d) -> MsgInvalidEmail
           [] d.message # <<>> /\ ~Duplicate(d) /\ ~BadEmail(d) /\ AuthRelated(d)
                -> MsgServiceUnavailable
           [] OTHER -> MsgGeneric)

\* request c is answered from the body of its first remote call, an object
\* whose message, if any, is a string
Classified(c) ==
  /\ calls[c].pc = "done"
  /\ calls[c].first.kind = "http"
  /\ calls[c].first.status \in 200..299
  /\ ~calls[c].data.isNull
  /\ calls[c].data.messageIsString

\* C10: the answer to a parsed upstream body is the reference mapping of its
\* status and message: Success (200) iff status is "success", whether the
\* token was refreshed in this call or not; otherwise a 400 failure that is
\* already-subscribed, else invalid-email, else auth-related, else generic,
\* by the keywords of the lower-cased message, and the fallback failure for
\* a body without message.
C10_ClassificationIsReference ==
  \A c \in Calls :
    Classified(c) =>
      /\ calls[c].reply = Reference(calls[c].data)
      /\ calls[c].reply.success <=> calls[c].data.status = KwSuccess

C10_Witness ==
  \E c \in Calls :
    /\ Classified(c)
    /\ calls[c].tokenRefreshes = 1
    /\ calls[c].data.message = MsgDupToken
    /\ calls[c].reply = Reply(400, FALSE, MsgAlreadySubscribed)

\* no token is held, or the expiry is set and reached
AbsentOrExpired ==
  \/ currentAccessToken = NoToken
  \/ tokenExpiryTime # 0 /\ now >= tokenExpiryTime

C11Step ==
  \A c \in Calls :
    TokenDecision(c) =>
      /\ calls'[c].tokenRefreshes = 1 <=> AbsentOrExpired
      /\ AbsentOrExpired => ~calls'[c].tokenOk /\ calls'[c].submits = 0
      /\ ~AbsentOrExpired =>
           /\ calls'[c].tokenOk
           /\ calls'[c].accessToken = currentAccessToken
           /\ calls'[c].tokenRefreshes = 0
           /\ UNCHANGED <<currentAccessToken, tokenExpiryTime, issued,
                          lastRefresh>>
      /\ (currentAccessToken = StaticToken /\ tokenExpiryTime = 0) =>
           calls'[c].tokenRefreshes = 0

\* C11: getValidAccessToken starts a refresh if and only if no token is
\* held or the expiry is set and the current time is at or after it;
\* otherwise it returns the held token, starts no refresh and leaves token
\* and expiry unchanged.  A configured initial token with unknown expiry is
\* never refreshed by it.
C11_RefreshIffAbsentOrExpired == [][C11Step]_vars

C11_Witness ==
  \E c \in Calls :
    /\ calls[c].pc = "submit"
    /\ calls[c].checkedAt = now
    /\ now > StartTime
    /\ calls[c].tokenRefreshes = 0
    /\ calls[c].accessToken = StaticToken
    /\ tokenExpiryTime = 0
    /\ env.refreshToken

PairUnchanged == UNCHANGED <<currentAccessToken, tokenExpiryTime, issued>>

\* the refresh awaited by getValidAccessToken of call c fails in this step
TokenRefreshFails(c) ==
  /\ calls[c].pc = "getToken"
  /\ calls'[c].pc # "getToken"
  /\ ~calls'[c].tokenOk

\* the refresh made after a 401 of call c fails in this step
RetryRefreshFails(c) ==
  /\ calls[c].pc = "refresh401"
  /\ calls'[c].retryRefresh = "failed"

C12Step ==
  /\ \A c \in Calls :
       /\ TokenRefreshFails(c) =>
            /\ PairUnchanged
            /\ calls'[c].pc = "done"
            /\ calls'[c].reply = Reply(500, FALSE, MsgAuth)
            /\ calls'[c].tokenRefreshes = calls[c].tokenRefreshes
            /\ calls'[c].retryRefreshes = calls[c].retryRefreshes
       /\ RetryRefreshFails(c) =>
            /\ PairUnchanged
            /\ calls'[c].pc = "done"
            /\ calls'[c].reply = unavailableReply
            /\ calls'[c].tokenRefreshes = calls[c].tokenRefreshes
            /\ calls'[c].retryRefreshes = calls[c].retryRefreshes
  /\ (manual.pc = "inflight" /\ manual'.pc = "idle"
         /\ manual'.status = 500) => PairUnchanged
  /\ (startup = "inflight" /\ startup' = "done"
         /\ lastRefresh' = lastRefresh) => PairUnchanged

\* C12: a refresh that fails (non-success HTTP status, answer without an
\* access token, network error) hands the failure to its caller, is not
\* repeated by the refresh routine, and leaves the held token and expiry as
\* they were.
C12_FailedRefreshKeepsPair == [][C12Step]_vars

C12_Witness ==
  \E c \in Calls :
    /\ calls[c].pc = "done"
    /\ calls[c].reply = Reply(500, FALSE, MsgAuth)
    /\ calls[c].tokenRefreshes = 1
    /\ currentAccessToken = Tok(StartupProc, 1)
    /\ tokenExpiryTime # 0
    /\ now >= tokenExpiryTime
    /\ now > StartTime

RefreshInFlight ==
  \/ startup = "inflight"
  \/ manual.pc = "inflight"
  \/ \E c \in Calls : calls[c].pc \in {"getToken", "refresh401"}

\* once nothing is in flight, the pair is that of the successful refresh
\* processed last
C13Quiet ==
  (~RefreshInFlight /\ issued # {}) =>
    /\ currentAccessToken = lastRefresh.token
    /\ tokenExpiryTime = ExpiryOf(lastRefresh)

\* the refresh of process p succeeds in this step with token tok
C13Stores(tok) ==
  /\ currentAccessToken' = tok
  /\ lastRefresh'.token = tok
  /\ tokenExpiryTime' = ExpiryOf(lastRefresh')

C13Step ==
  /\ \A c \in Calls :
       /\ (calls[c].pc = "getToken" /\ calls'[c].pc = "submit") =>
            C13Stores(Tok(CallProc(c), 1))
       /\ (calls[c].pc = "refresh401" /\ calls'[c].pc = "retry") =>
            C13Stores(Tok(CallProc(c), 2))
       /\ (TokenRefreshFails(c) \/ RetryRefreshFails(c)) =>
            UNCHANGED <<currentAccessToken, tokenExpiryTime, lastRefresh>>
  /\ (manual.pc = "inflight" /\ manual'.pc = "idle") =>
       IF manual'.status = 200
         THEN C13Stores(Tok(ManualProc, 1))
         ELSE UNCHANGED <<currentAccessToken, tokenExpiryTime, lastRefresh>>

\* C13: subscribe calls that find the token absent each start their own
\* refresh; every refresh that succeeds overwrites the held pair with its
\* own token and expiry at the moment it is processed, a refresh that fails
\* overwrites nothing, so that once no refresh is in flight the held pair
\* is that of the successful refresh processed last.
C13_LastSuccessfulRefreshWins == []C13Quiet /\ [][C13Step]_vars

C13_Witness ==
  \E c, d \in Calls :
    /\ c # d
    /\ ~RefreshInFlight
    /\ calls[c].tokenRefreshes = 1
    /\ calls[d].tokenRefreshes = 1
    /\ {Tok(CallProc(c), 1), Tok(CallProc(d), 1)} \subseteq issued
    /\ calls[c].pc = "submit"
    /\ calls[c].accessToken = Tok(CallProc(c), 1)
    /\ currentAccessToken = Tok(CallProc(d), 1)
    /\ lastRefresh.token = Tok(CallProc(d), 1)

\* the first remote subscribe call of call c returned a non-success status
FirstNotOk(c) ==
  /\ calls[c].first.kind \in {"http", "readfail"}
  /\ ~ok(calls[c].first.status)

C15Call(c) ==
  /\ calls[c].submits <= 2
  /\ calls[c].tokenRefreshes <= 1
  /\ calls[c].retryRefreshes <= 1
  /\ calls[c].tokenRefreshes + calls[c].retryRefreshes <= 2
  /\ calls[c].submits = 2 =>
       /\ FirstNotOk(c)
       /\ calls[c].first.status = 401
       /\ env.refreshToken
       /\ calls[c].retryRefreshes = 1
       /\ calls[c].retryRefresh = "granted"
  /\ calls[c].retryRefreshes = 1 =>
       /\ FirstNotOk(c)
       /\ calls[c].first.status = 401
       /\ env.refreshToken
  /\ (FirstNotOk(c) /\ ~(calls[c].first.status = 401 /\ env.refreshToken)) =>
       /\ calls[c].pc = "done"
       /\ calls[c].retryRefreshes = 0
       /\ calls[c].submits = 1
       /\ calls[c].reply = unavailableReply

\* C15: one subscribe call makes at most two remote subscribe calls and at
\* most two token refreshes; the second remote call is made only after the
\* first returned 401 with a refresh token configured and the refresh that
\* followed succeeded; after any other non-success status, or a 401 without
\* a refresh token, there is no refresh and no retry and the answer is the
\* upstream-unavailable failure.
C15_AtMostTwoSubmitsTwoRefreshes == \A c \in Calls : C15Call(c)

C15_Witness ==
  \E c \in Calls :
    /\ calls[c].pc = "done"
    /\ calls[c].submits = 2
    /\ calls[c].tokenRefreshes = 1
    /\ calls[c].retryRefreshes = 1
    /\ calls[c].first.status = 401

\* getValidAccessToken of call c was called and raised
TokenFailed(c) ==
  /\ calls[c].tokenCalls = 1
  /\ calls[c].pc # "getToken"
  /\ ~calls[c].tokenOk

\* C17: when getValidAccessToken fails, the subscribe call answers the
\* authentication failure (500) with its fixed try-again-later message,
\* issues no remote subscribe call and attempts no further refresh.
C17_TokenFailureAnswersAuthError ==
  \A c \in Calls :
    TokenFailed(c) =>
      /\ calls[c].pc = "done"
      /\ calls[c].reply = Reply(500, FALSE, MsgAuth)
      /\ calls[c].submits = 0
      /\ calls[c].first = NoOutcome
      /\ calls[c].tokenRefreshes = 1
      /\ calls[c].retryRefreshes = 0

C17_Witness ==
  \E c \in Calls :
    /\ TokenFailed(c)
    /\ calls[c].reply.message = MsgAuth
    /\ calls[c].tokenRefreshes = 1
    /\ startup = "done"

\* the fixed user-facing messages, by status
UserMessages ==
  [s \in {200, 400, 500, 503, 504} |->
     CASE s = 200 -> {MsgSubscribed}
       [] s = 400 -> ValidationMessages \cup ClassifiedMessages
       [] s = 500 -> {MsgConfig, MsgAuth, MsgUnavailable, MsgInternal}
       [] s = 503 -> {MsgUnavailable}
       [] s = 504 -> {MsgTimeout}]

\* C18: the message of every subscribe response is one of a fixed finite
\* set of user-facing strings determined by the status of the response;
\* text of the upstream body, of the token endpoint or of an exception is
\* never returned.
C18_MessagesFromFixedSet ==
  \A c \in Calls :
    calls[c].pc = "done" =>
      /\ calls[c].reply.status \in DOMAIN UserMessages
      /\ calls[c].reply.message \in UserMessages[calls[c].reply.status]
      /\ calls[c].reply.success <=> calls[c].reply.status = 200

C18_Witness ==
  \E c \in Calls :
    /\ calls[c].pc = "done"
    /\ calls[c].first.kind = "http"
    /\ ok(calls[c].first.status)
    /\ calls[c].data.message = MsgListNotFound
    /\ calls[c].reply.message = MsgGeneric

\* a remote subscribe call of call c is in flight
Submitting(c) == calls[c].pc \in {"submit", "retry"}

\* C19: under every interleaving, a remote subscribe call (the first one or
\* the retry) carries a token, and that token is the configured initial
\* token or a token value some successful refresh delivered.
C19_SubmissionCarriesRealToken ==
  \A c \in Calls :
    Submitting(c) =>
      /\ calls[c].accessToken # NoToken
      /\ \/ calls[c].accessToken = StaticToken /\ env.authToken
         \/ calls[c].accessToken \in issued
      /\ calls[c].pc = "retry" => calls[c].accessToken \in issued

C19_Witness ==
  \E c, d \in Calls :
    /\ calls[c].pc = "retry"
    /\ calls[c].accessToken \in issued
    /\ calls[c].accessToken # currentAccessToken
    /\ calls[d].pc = "submit"
    /\ calls[d].accessToken = StaticToken

\* the credentials of one authentication mode are all set: the static
\* token, or the refresh token with client id and client secret
CredentialsSet ==
  \/ env.authToken
  \/ env.refreshToken /\ env.clientCreds

\* C16: for a well-formed email, if the list key or the credentials of the
\* configured authentication mode are unset, the subscribe call answers the
\* configuration failure (500) before any outbound call: no token refresh
\* and no remote subscribe call.
C16_MissingConfigAnsweredBeforeAnyCall ==
  \A c \in Calls :
    (calls[c].pc # "idle" /\ emailRegex(calls[c].email)
       /\ (~env.listKey \/ ~CredentialsSet)) =>
      /\ calls[c].pc = "done"
      /\ calls[c].reply = Reply(500, FALSE, MsgConfig)
      /\ NoOutboundCall(c)

\* a response has the shape {success, message} with an HTTP status
Responded(c) ==
  /\ calls[c].pc = "done"
  /\ calls[c].reply.status \in {200, 400, 500, 503, 504}
  /\ calls[c].reply.success \in BOOLEAN
  /\ calls[c].reply.message # ""

\* no response is sent before the handler returns, and none after it
C14Once ==
  \A c \in Calls :
    /\ calls[c].pc = "done" => calls'[c] = calls[c]
    /\ calls'[c].pc # "done" => calls'[c].reply = NoReply

\* C14: every subscribe call that was received eventually answers, whatever
\* the remote endpoints return or raise and whatever the other call does,
\* given that each of its remote calls comes back; it answers once, and the
\* handler ends in no other way than by answering.
C14_EveryCallAnswersOnce ==
  /\ \A c \in Calls : (calls[c].pc # "idle") ~> Responded(c)
  /\ [](\A c \in Calls :
         calls[c].pc \in {"idle", "getToken", "submit", "refresh401",
                           "retry", "done"})
  /\ [][C14Once]_vars

C14_Witness ==
  /\ Responded(1)
  /\ Responded(2)
  /\ calls[1].submits = 2
  /\ calls[1].second.kind = "throw"
  /\ calls[2].first.kind = "readfail"

====
